---------------------------- MODULE Spec2Model ----------------------------
(* A model of the PDF stamping programs app.py (Streamlit front end:        *)
(* process_files, save_processed_file) and pdf_stamper.py (command line:    *)
(* process_pdf_files, move_processed_files).                                *)
(*                                                                          *)
(* Strings are sequences of one-character strings, so that rsplit and the   *)
(* f-strings building file names are computed character by character.       *)
(* A file system is a function from paths <<directory, name>> to contents.  *)
(* The contents of a PDF file are [kind |-> "pdf", pages |-> <<...>>]; a    *)
(* page is [box, layers] where layers is what the page draws, bottom first: *)
(* its own content, then the overlays merged onto it.                       *)
EXTENDS Integers, Sequences, FiniteSets, TLC

VARIABLES
    pc,               \* position of the running program
    clock,            \* the wall clock, in ticks (datetime.now())
    fs,               \* the file system: path -> contents
    stamp_date,       \* app.py PDFStamper.stamp_date
    keep_original,    \* app.py process_files argument
    uploaded_files,   \* app.py process_files argument
    i,                \* app.py process_files loop index (0-based)
    processed_files,  \* app.py process_files local list of result records
    errors,           \* the st.error calls made so far (app.py)
    progress,         \* the progress_bar.progress values reported so far
    new_name,         \* app.py process_files local
    file_bytes,       \* app.py process_files local
    stamped_bytes,    \* app.py process_files local
    counter,          \* collision counter of the running persist loop
    save_file,        \* app.py save_processed_file local
    log,              \* history: the attempts made so far, in order
    pdf_files,        \* pdf_stamper.py process_pdf_files local list
    k,                \* pdf_stamper.py: index of the current list element
    cli_processed,    \* pdf_stamper.py process_pdf_files local processed_files
    self_processed,   \* pdf_stamper.py PDFStamper.processed_files
    dest_path,        \* pdf_stamper.py move_processed_files dest_path
    dest_file,        \* pdf_stamper.py move_processed_files local
    moved_count,      \* pdf_stamper.py move_processed_files local
    move_log          \* history: the moves tried so far, in order

vars == << pc, clock, fs, stamp_date, keep_original, uploaded_files, i,
           processed_files, errors, progress, new_name, file_bytes,
           stamped_bytes, counter, save_file, log, pdf_files, k,
           cli_processed, self_processed, dest_path, dest_file, moved_count,
           move_log >>

appVars == << keep_original, uploaded_files, i, processed_files, errors,
              progress, new_name, file_bytes, stamped_bytes, save_file >>

cliVars == << pdf_files, k, cli_processed, self_processed, dest_path,
              dest_file, moved_count, move_log >>

-----------------------------------------------------------------------------
(* Bounds of the model.                                                     *)

MaxBatch == 2        \* files in one batch
MaxPages == 2        \* pages of a document of the stamping specification
MaxClock == 2        \* ticks the clock may advance
TicksPerDay == 2     \* clock ticks in one calendar day
MaxEnvFiles == 2     \* files other programs have put in a destination
MaxK == 2            \* largest collision number of a pre-existing file
MaxNameLen == 3      \* length of the names of the naming specification

-----------------------------------------------------------------------------
(* Strings.                                                                 *)

Dot == "."

HasDot(s) == \E p \in 1..Len(s) : s[p] = Dot

LastDot(s) == CHOOSE p \in 1..Len(s) :
                  s[p] = Dot /\ \A q \in (p+1)..Len(s) : s[q] # Dot

FirstDot(s) == CHOOSE p \in 1..Len(s) :
                   s[p] = Dot /\ \A q \in 1..(p-1) : s[q] # Dot

\* A variant of rsplit that splits at the first dot, as str.split('.', 1).
rsplit_AtFirstDot(s) ==
    IF HasDot(s)
    THEN << SubSeq(s, 1, FirstDot(s) - 1), SubSeq(s, FirstDot(s) + 1, Len(s)) >>
    ELSE << s >>

\* str.rsplit('.', 1): split once, at the last dot; one part when no dot.
rsplit(s) ==
    IF HasDot(s)
    THEN << SubSeq(s, 1, LastDot(s) - 1), SubSeq(s, LastDot(s) + 1, Len(s)) >>
    ELSE << s >>

Digit(d) == CASE d = 0 -> "0" [] d = 1 -> "1" [] d = 2 -> "2" [] d = 3 -> "3"
              [] d = 4 -> "4" [] d = 5 -> "5" [] d = 6 -> "6" [] d = 7 -> "7"
              [] d = 8 -> "8" [] d = 9 -> "9"

\* The decimal rendering of a natural number by an f-string.
RECURSIVE str(_)
str(n) == IF n < 10 THEN << Digit(n) >>
          ELSE str(n \div 10) \o << Digit(n % 10) >>

\* The fixed "done" suffix of keep-original mode: an underscore and the two
\* characters U+5B8C U+4E86 ("kanryo"), written here by their readings.
DoneSuffix == << "_", "KAN", "RYO" >>

\* A variant of OutputName that adds the suffix in replace mode too.
OutputName_AlwaysSuffixed(name, keep) ==
    LET name_parts == rsplit(name)
    IN  IF Len(name_parts) = 2
        THEN name_parts[1] \o DoneSuffix \o << Dot >> \o name_parts[2]
        ELSE name \o DoneSuffix

\* app.py process_files: the output name of an uploaded file.
OutputName(name, keep) ==
    IF keep
    THEN LET name_parts == rsplit(name)
         IN  IF Len(name_parts) = 2
             THEN name_parts[1] \o DoneSuffix \o << Dot >> \o name_parts[2]
             ELSE name \o DoneSuffix
    ELSE name

\* A variant of NumberedName that numbers from 2.
NumberedName_FromTwo(filename, c) ==
    LET name_parts == rsplit(filename)
    IN  IF Len(name_parts) = 2
        THEN name_parts[1] \o << "_" >> \o str(c + 1) \o << Dot >> \o name_parts[2]
        ELSE filename \o << "_" >> \o str(c + 1)

\* The name tried by the collision loop for a given counter.
NumberedName(filename, c) ==
    LET name_parts == rsplit(filename)
    IN  IF Len(name_parts) = 2
        THEN name_parts[1] \o << "_" >> \o str(c) \o << Dot >> \o name_parts[2]
        ELSE filename \o << "_" >> \o str(c)

-----------------------------------------------------------------------------
(* Documents.                                                               *)

StampText == "sagyo-kanryo"     \* self.stamp_text, the fixed label

\* datetime.now().strftime("%Y/%m/%d"): the calendar day of a clock value.
strftime(t) == << "day", t \div TicksPerDay >>

Content(id) == [kind |-> "content", id |-> id]

Pages == { [box |-> "A4", layers |-> << Content(1) >>],
           [box |-> "A3", layers |-> << Content(2) >>] }

PageSeqs == UNION { [1..n -> Pages] : n \in 0..MaxPages }

Garbage == [kind |-> "garbage"]      \* bytes PyPDF2 cannot parse
Partial == [kind |-> "partial"]      \* what an interrupted write leaves behind
Foreign == [kind |-> "foreign"]      \* a file some other program wrote

Pdf(pages) == [kind |-> "pdf", pages |-> pages]

ValidDocs == { Pdf(ps) : ps \in PageSeqs \ { << >> } }
Docs == { Pdf(ps) : ps \in PageSeqs } \cup { Garbage }

\* PyPDF2.PdfReader(...) followed by pdf_reader.pages[0]: raises on bytes that
\* are no PDF and on a document without pages.
Readable(bytes) == bytes.kind = "pdf" /\ Len(bytes.pages) > 0

\* create_stamp_pdf(width, height): a one-page overlay of the given size
\* carrying the label and a date.
create_stamp_pdf(box, date) ==
    [kind |-> "overlay", text |-> StampText, date |-> date, box |-> box]

\* A variant of merge_page that draws the overlay under the page's content.
merge_page_Under(page, stamp_page) ==
    [page EXCEPT !.layers = << stamp_page >> \o @]

\* page.merge_page(stamp_page): the overlay is drawn after the page's content.
merge_page(page, stamp_page) ==
    [page EXCEPT !.layers = Append(@, stamp_page)]

\* The body of stamp_pdf on readable bytes: one overlay sized to the first
\* page, merged onto every page in order, written as a new document.
stamp_pdf(bytes, date) ==
    LET first_page == bytes.pages[1]
        stamp_page == create_stamp_pdf(first_page.box, date)
    IN  Pdf([ n \in 1..Len(bytes.pages) |->
                merge_page(bytes.pages[n], stamp_page) ])

-----------------------------------------------------------------------------
(* The file system.                                                         *)

Downloads == "Downloads"     \* Path.home() / "Downloads"
InputDir  == "in"
OtherDir  == "out"

\* A variant of exists that never finds the file.
exists_Never(path) == FALSE

\* Path.exists()
exists(path) == path \in DOMAIN fs

NoPath == << >>              \* the empty string returned for a failed save
NoBytes == [kind |-> "none"]

InDir(d) == { p \in DOMAIN fs : p[1] = d }

Write(path, bytes) == (path :> bytes) @@ fs

Remove(path) == [ p \in DOMAIN fs \ { path } |-> fs[p] ]

\* len(bytes), counted in objects: one per layer of every page.
RECURSIVE PagesSize(_)
PagesSize(ps) == IF ps = << >> THEN 0
                 ELSE Len(Head(ps).layers) + PagesSize(Tail(ps))

len(bytes) == IF bytes.kind = "pdf" THEN 1 + PagesSize(bytes.pages) ELSE 1

-----------------------------------------------------------------------------
(* Inputs.                                                                  *)

PdfExt == << ".", "p", "d", "f" >>

NameReport == << "r" >> \o PdfExt                  \* "r.pdf"
NameMulti  == << "a", ".", "b" >> \o PdfExt        \* "a.b.pdf"
NameNotes  == << "n" >>                            \* "n", no extension

Names == { NameReport, NameMulti, NameNotes }

\* Path.glob("*.pdf"): the names ending in ".pdf".
IsPdfName(name) ==
    /\ Len(name) >= Len(PdfExt)
    /\ SubSeq(name, Len(name) - Len(PdfExt) + 1, Len(name)) = PdfExt

File(name, bytes) == [name |-> name, bytes |-> bytes]

SeqsUpTo(S, n) == UNION { [1..m -> S] : m \in 1..n }

OnePage == Pdf(<< [box |-> "A4", layers |-> << Content(1) >>] >>)
TwoPages == Pdf(<< [box |-> "A4", layers |-> << Content(1) >>],
                   [box |-> "A3", layers |-> << Content(2) >>] >>)

\* One document of every kind: unparseable, without pages, one page, two.
BasicDocs == { Garbage, Pdf(<< >>), OnePage, TwoPages }

\* Batches of the batch specification: every kind of document, two names.
BatchFiles == { File(n, d) : n \in { NameReport, NameNotes }, d \in BasicDocs }

\* Batches of the stamping specification: one document, of any pages.
StampFiles == { File(NameReport, d) : d \in Docs }

\* Batches of the persist specification: every name, a document that stamps.
PersistFiles == { File(n, OnePage) : n \in Names }

\* Names of the naming specification: the strings over a letter and the dot,
\* except those made of dots only (".", ".." name no file).
Chars == { "a", Dot }
AllNames == { n \in SeqsUpTo(Chars, MaxNameLen) : \E p \in 1..Len(n) : n[p] # Dot }

\* Batches of the naming specification: one name, once or several times.
NamingBatches ==
    { files \in SeqsUpTo({ File(n, d) : n \in AllNames, d \in { OnePage, Garbage } },
                         MaxBatch) :
        \A a, b \in 1..Len(files) : files[a].name = files[b].name }

\* The dates a user may type: free text, or a calendar day.
DateInputs == { << "text", 0 >>, strftime(MaxClock) }

\* The names other programs may have left in a destination folder: a name
\* one of the programs computes, and its numbered names.
Family(n) == { n } \cup { NumberedName(n, c) : c \in 1..MaxK }
Computed == Names \cup { OutputName(n, TRUE) : n \in Names }
PdfNames == { n \in Names : IsPdfName(n) }

Perms(S) == { f \in [1..Cardinality(S) -> S] :
                \A a, b \in 1..Cardinality(S) : a # b => f[a] # f[b] }

\* The input directories of the command line program: each PDF name absent or
\* holding one of the documents, and possibly a file that is no PDF.
InputFileSystems(docs) ==
    { f \in UNION { [ { << InputDir, n >> : n \in D } -> docs \cup { Foreign } ]
                    : D \in SUBSET Names } :
        \A p \in DOMAIN f : (f[p] = Foreign) <=> ~IsPdfName(p[2]) }

EmptyFs == [ p \in { } |-> NoBytes ]

-----------------------------------------------------------------------------
(* Initial states: a fresh Streamlit session (PDFStamper() of app.py), or    *)
(* the command line program about to ask for its input directory.            *)

InitCommon ==
    /\ clock = 0
    /\ stamp_date = strftime(clock)
    /\ keep_original = FALSE
    /\ uploaded_files = << >>
    /\ i = 0
    /\ processed_files = << >>
    /\ errors = << >>
    /\ progress = << >>
    /\ new_name = << >>
    /\ file_bytes = NoBytes
    /\ stamped_bytes = NoBytes
    /\ counter = 1
    /\ save_file = NoPath
    /\ log = << >>
    /\ pdf_files = << >>
    /\ k = 1
    /\ cli_processed = << >>
    /\ self_processed = << >>
    /\ dest_path = OtherDir
    /\ dest_file = NoPath
    /\ moved_count = 0
    /\ move_log = << >>

InitApp == pc = "idle" /\ fs = EmptyFs /\ InitCommon

InitCli(docs) ==
    pc = "cli_idle" /\ fs \in InputFileSystems(docs) /\ InitCommon

Init == InitApp \/ InitCli(BasicDocs)

InitStamp == InitApp \/ InitCli(Docs)

InitPersist == InitApp \/ InitCli({ OnePage, Garbage })

-----------------------------------------------------------------------------
(* The environment.                                                         *)

\* The clock advances. app.py reads the clock only when the session's
\* PDFStamper is built (line 29), so its ticks are left out.
Tick ==
    /\ pc \notin { "idle", "for", "save_while", "done" }
    /\ clock < MaxClock
    /\ clock' = clock + 1
    /\ UNCHANGED << pc, fs, stamp_date, counter, log, appVars, cliVars >>

\* Another program leaves a file in a destination folder before the run.
\* The files left are those of one family: the collision loop asks for no
\* other name.
EnvCreate(dir, root, name) ==
    /\ \/ pc = "idle" /\ dir = Downloads
       \/ pc = "cli_idle" /\ dir = OtherDir
    /\ name \in Family(root)
    /\ \A p \in InDir(dir) : p[2] \in Family(root)
    /\ Cardinality(InDir(dir)) < MaxEnvFiles
    /\ ~exists(<< dir, name >>)
    /\ fs' = Write(<< dir, name >>, Foreign)
    /\ UNCHANGED << pc, clock, stamp_date, counter, log, appVars, cliVars >>

-----------------------------------------------------------------------------
(* app.py                                                                   *)

\* main(), lines 115-117: the date button with a non-empty text.
set_stamp_date(date_str) ==
    /\ pc = "idle"
    /\ stamp_date' = date_str
    /\ UNCHANGED << pc, clock, fs, counter, log, appVars, cliVars >>

\* process_files, lines 173-178: the call, up to the loop.
process_files(files, keep) ==
    /\ pc = "idle"
    /\ uploaded_files' = files
    /\ keep_original' = keep
    /\ progress' = << << 0, 1 >> >>
    /\ processed_files' = << >>
    /\ i' = 0
    /\ pc' = "for"
    /\ UNCHANGED << clock, fs, stamp_date, errors, new_name, file_bytes,
                    stamped_bytes, counter, save_file, log, cliVars >>

\* An entry of the history of attempts: which input, whether stamp_pdf
\* succeeded, the bytes it read and the bytes it produced.
Attempt(idx, ok, input, output) ==
    [idx |-> idx, ok |-> ok, input |-> input, output |-> output]

\* A variant of StampFailsStep in which the exception ends the batch.
StampFailsStep_Aborts(file) ==
    /\ errors' = Append(errors, [what |-> "process", file |-> file.name])
    /\ log' = Append(log, Attempt(i, FALSE, file.bytes, NoBytes))
    /\ i' = i + 1
    /\ pc' = "done"
    /\ UNCHANGED << progress, processed_files, new_name, stamped_bytes,
                    counter, save_file >>

\* What the except clause of process_files does with a failed stamp_pdf:
\* st.error, then continue.
StampFailsStep(file) ==
    /\ errors' = Append(errors, [what |-> "process", file |-> file.name])
    /\ log' = Append(log, Attempt(i, FALSE, file.bytes, NoBytes))
    /\ i' = i + 1
    /\ pc' = "for"
    /\ UNCHANGED << progress, processed_files, new_name, stamped_bytes,
                    counter, save_file >>

\* One loop iteration, lines 180-188 and 215-217: stamp_pdf raises.
StampFails ==
    /\ pc = "for"
    /\ i < Len(uploaded_files)
    /\ LET uploaded_file == uploaded_files[i + 1]
       IN  /\ file_bytes' = uploaded_file.bytes
           /\ ~Readable(uploaded_file.bytes)
           /\ StampFailsStep(uploaded_file)
    /\ UNCHANGED << clock, fs, stamp_date, keep_original, uploaded_files,
                    cliVars >>

\* One loop iteration, lines 180-203 and 233-241: stamp_pdf returns, the
\* output name is computed and save_processed_file reaches its while loop.
StampSucceeds ==
    /\ pc = "for"
    /\ i < Len(uploaded_files)
    /\ LET uploaded_file == uploaded_files[i + 1]
       IN  /\ file_bytes' = uploaded_file.bytes
           /\ Readable(uploaded_file.bytes)
           /\ stamped_bytes' = stamp_pdf(uploaded_file.bytes, stamp_date)
           /\ new_name' = OutputName(uploaded_file.name, keep_original)
    /\ save_file' = << Downloads, new_name' >>
    /\ counter' = 1
    /\ pc' = "save_while"
    /\ UNCHANGED << clock, fs, stamp_date, keep_original, uploaded_files, i,
                    processed_files, errors, progress, log, cliVars >>

\* A variant of SaveWhile that numbers the name tried last instead of the
\* computed name.
SaveWhile_Accumulates ==
    /\ pc = "save_while"
    /\ exists(save_file)
    /\ save_file' = << Downloads, NumberedName(save_file[2], counter) >>
    /\ counter' = counter + 1
    /\ UNCHANGED << pc, clock, fs, stamp_date, keep_original, uploaded_files,
                    i, processed_files, errors, progress, new_name,
                    file_bytes, stamped_bytes, log, cliVars >>

\* save_processed_file, lines 242-249: one turn of the collision loop.
SaveWhile ==
    /\ pc = "save_while"
    /\ exists(save_file)
    /\ save_file' = << Downloads, NumberedName(new_name, counter) >>
    /\ counter' = counter + 1
    /\ UNCHANGED << pc, clock, fs, stamp_date, keep_original, uploaded_files,
                    i, processed_files, errors, progress, new_name,
                    file_bytes, stamped_bytes, log, cliVars >>

\* process_files, lines 205-212 and 219: the record appended once
\* save_processed_file has returned save_path, and the progress update.
AppendResult(save_path) ==
    /\ processed_files' = Append(processed_files,
           [ name           |-> new_name,
             original_name  |-> uploaded_files[i + 1].name,
             data           |-> stamped_bytes,
             original_size  |-> len(file_bytes),
             processed_size |-> len(stamped_bytes),
             save_path      |-> save_path ])
    /\ progress' = Append(progress, << i + 1, Len(uploaded_files) >>)
    /\ log' = Append(log, Attempt(i, TRUE, file_bytes, stamped_bytes))
    /\ i' = i + 1
    /\ pc' = "for"

\* save_processed_file, lines 251-254, then the rest of the iteration: the
\* loop has ended and the file is written.
SaveWrites ==
    /\ pc = "save_while"
    /\ ~exists(save_file)
    /\ fs' = Write(save_file, stamped_bytes)
    /\ AppendResult(save_file)
    /\ UNCHANGED << clock, stamp_date, keep_original, uploaded_files, errors,
                    new_name, file_bytes, stamped_bytes, counter, save_file,
                    cliVars >>

\* A variant of SaveOpenFails in which the exception leaves
\* save_processed_file and is handled as a failure of the document.
SaveOpenFails_Raises ==
    /\ pc = "save_while"
    /\ StampFailsStep(uploaded_files[i + 1])
    /\ UNCHANGED << clock, fs, stamp_date, keep_original, uploaded_files,
                    file_bytes, cliVars >>

\* save_processed_file, lines 241, 251 and 256-258: the try covers the
\* collision loop as well as the write.  save_file.exists() raises on a path
\* the system refuses (too long, a folder that may not be searched), whether
\* or not a file of that name is there, or open() raises (no Downloads
\* folder, no permission).  Nothing is written, no further name is tried;
\* st.error and "" is returned, and the iteration goes on.
SaveOpenFails ==
    /\ pc = "save_while"
    /\ errors' = Append(errors, [what |-> "save"])
    /\ AppendResult(NoPath)
    /\ UNCHANGED << clock, fs, stamp_date, keep_original, uploaded_files,
                    new_name, file_bytes, stamped_bytes, counter, save_file,
                    cliVars >>

\* save_processed_file, lines 251-258: f.write raises (disk full) after open()
\* has created the file.
SaveWriteFails ==
    /\ pc = "save_while"
    /\ ~exists(save_file)
    /\ fs' = Write(save_file, Partial)
    /\ errors' = Append(errors, [what |-> "save"])
    /\ AppendResult(NoPath)
    /\ UNCHANGED << clock, stamp_date, keep_original, uploaded_files,
                    new_name, file_bytes, stamped_bytes, counter, save_file,
                    cliVars >>

\* process_files, lines 221-222: the loop is over.
Finish ==
    /\ pc = "for"
    /\ i = Len(uploaded_files)
    /\ progress' = Append(progress, << 1, 1 >>)
    /\ pc' = "done"
    /\ UNCHANGED << clock, fs, stamp_date, keep_original, uploaded_files, i,
                    processed_files, errors, new_name, file_bytes,
                    stamped_bytes, counter, save_file, log, cliVars >>

AppSteps ==
    \/ StampFails
    \/ StampSucceeds
    \/ SaveWhile
    \/ SaveWrites
    \/ SaveOpenFails
    \/ SaveWriteFails
    \/ Finish

-----------------------------------------------------------------------------
(* pdf_stamper.py                                                           *)

\* process_pdf_files, lines 93-105: the directory is listed, in whatever
\* order glob yields; with no PDF file the method returns at once.
process_pdf_files(order) ==
    /\ pc = "cli_idle"
    /\ pdf_files' = order
    /\ cli_processed' = << >>
    /\ k' = 1
    /\ pc' = IF order = << >> THEN "cli_done" ELSE "cli_for"
    /\ UNCHANGED << clock, fs, stamp_date, counter, log, appVars,
                    self_processed, dest_path, dest_file, moved_count,
                    move_log >>

GlobOrders == Perms({ p \in InDir(InputDir) : IsPdfName(p[2]) })

\* What process_pdf_files does with the result of stamp_pdf, lines 111-115.
CliRecord(path, ok, output) ==
    /\ cli_processed' = IF ok THEN Append(cli_processed, path)
                        ELSE cli_processed
    /\ log' = Append(log, Attempt(k - 1, ok, fs[path], output))
    /\ k' = k + 1
    /\ UNCHANGED << pc, clock, stamp_date, counter, appVars, pdf_files,
                    self_processed, dest_path, dest_file, moved_count,
                    move_log >>

\* stamp_pdf(path, path), lines 62-70 and 89-91: the input cannot be parsed
\* or has no page; the exception is caught and False returned.
CliStampUnreadable ==
    /\ pc = "cli_for"
    /\ k <= Len(pdf_files)
    /\ ~Readable(fs[pdf_files[k]])
    /\ UNCHANGED fs
    /\ CliRecord(pdf_files[k], FALSE, NoBytes)

\* stamp_pdf(path, path), lines 62-87: the stamped document replaces the file.
\* The date is read from the clock inside create_stamp_pdf (line 34).
CliStampWrites ==
    /\ pc = "cli_for"
    /\ k <= Len(pdf_files)
    /\ Readable(fs[pdf_files[k]])
    /\ fs' = Write(pdf_files[k], stamp_pdf(fs[pdf_files[k]], strftime(clock)))
    /\ CliRecord(pdf_files[k], TRUE, fs'[pdf_files[k]])

\* stamp_pdf(path, path), line 84: open(output_path, 'wb') raises (no
\* permission to write); nothing has been written.
CliStampOpenFails ==
    /\ pc = "cli_for"
    /\ k <= Len(pdf_files)
    /\ Readable(fs[pdf_files[k]])
    /\ UNCHANGED fs
    /\ CliRecord(pdf_files[k], FALSE, NoBytes)

\* stamp_pdf(path, path), lines 84-85: open(output_path, 'wb') has truncated
\* the file, which is the input, and pdf_writer.write raises (disk full, or an
\* object of the input read only now).
CliStampWriteFails ==
    /\ pc = "cli_for"
    /\ k <= Len(pdf_files)
    /\ Readable(fs[pdf_files[k]])
    /\ fs' = Write(pdf_files[k], Partial)
    /\ CliRecord(pdf_files[k], FALSE, NoBytes)

\* process_pdf_files, lines 117-118.
ProcessEnd ==
    /\ pc = "cli_for"
    /\ k > Len(pdf_files)
    /\ self_processed' = cli_processed
    /\ pc' = "cli_processed"
    /\ UNCHANGED << clock, fs, stamp_date, counter, log, appVars, pdf_files,
                    k, cli_processed, dest_path, dest_file, moved_count,
                    move_log >>

\* main(), lines 166-175, and move_processed_files, lines 120-125: the user
\* asks for the processed files to be moved to a directory, which is there
\* or is created.
move_processed_files(destination_dir) ==
    /\ pc = "cli_processed"
    /\ self_processed # << >>
    /\ dest_path' = destination_dir
    /\ moved_count' = 0
    /\ k' = 1
    /\ pc' = "mv_for"
    /\ UNCHANGED << clock, fs, stamp_date, counter, log, appVars, pdf_files,
                    cli_processed, self_processed, dest_file, move_log >>

\* main(), lines 166-175, and move_processed_files, lines 122-123: mkdir
\* raises on a path the system refuses (no permission, a file in the way, a
\* path too long), whether or not the directory is there and holds files.
\* Line 123 is outside the try of the loop and main() has no handler: the
\* exception ends the program before any file is tried.
MoveMkdirFails(destination_dir) ==
    /\ pc = "cli_processed"
    /\ self_processed # << >>
    /\ dest_path' = destination_dir
    /\ pc' = "mv_raised"
    /\ UNCHANGED << clock, fs, stamp_date, counter, log, appVars, pdf_files,
                    k, cli_processed, self_processed, dest_file, moved_count,
                    move_log >>

\* move_processed_files, lines 126-132: the next file, up to the while loop.
MoveFor ==
    /\ pc = "mv_for"
    /\ k <= Len(self_processed)
    /\ dest_file' = << dest_path, self_processed[k][2] >>
    /\ counter' = 1
    /\ pc' = "mv_while"
    /\ UNCHANGED << clock, fs, stamp_date, log, appVars, pdf_files, k,
                    cli_processed, self_processed, dest_path, moved_count,
                    move_log >>

\* move_processed_files, lines 133-140: one turn of the collision loop.
MoveWhile ==
    /\ pc = "mv_while"
    /\ exists(dest_file)
    /\ dest_file' = << dest_path, NumberedName(self_processed[k][2], counter) >>
    /\ counter' = counter + 1
    /\ UNCHANGED << pc, clock, fs, stamp_date, log, appVars, pdf_files, k,
                    cli_processed, self_processed, dest_path, moved_count,
                    move_log >>

\* shutil.move(src, dst) to a path that does not exist.
Moved(src, dst) == (dst :> fs[src]) @@ Remove(src)

\* One turn of the loop of move_processed_files as the history keeps it:
\* the file, the destination tried, and whether line 143 counted it.
MoveAttempt(src, dst, ok) == [ src |-> src, dst |-> dst, ok |-> ok ]

\* move_processed_files, lines 142-144: the loop has ended, the file is moved.
MoveMoves ==
    /\ pc = "mv_while"
    /\ ~exists(dest_file)
    /\ fs' = Moved(self_processed[k], dest_file)
    /\ moved_count' = moved_count + 1
    /\ move_log' = Append(move_log,
                          MoveAttempt(self_processed[k], dest_file, TRUE))
    /\ k' = k + 1
    /\ pc' = "mv_for"
    /\ UNCHANGED << clock, stamp_date, counter, log, appVars, pdf_files,
                    cli_processed, self_processed, dest_path, dest_file >>

\* A loop that a failing move ends: the except clause outside the for.
MoveFails_Aborts ==
    /\ pc = "mv_while"
    /\ move_log' = Append(move_log,
                          MoveAttempt(self_processed[k], dest_file, FALSE))
    /\ pc' = "mv_done"
    /\ UNCHANGED << clock, fs, stamp_date, counter, log, appVars, pdf_files,
                    k, cli_processed, self_processed, dest_path, dest_file,
                    moved_count >>

\* move_processed_files, lines 133, 142 and 146-147: the try covers the
\* collision loop as well as the move.  dest_file.exists() raises on a path
\* the system refuses (too long, a directory that may not be searched),
\* whether or not a file of that name is there, or shutil.move raises before
\* it has created the destination.  Nothing is written, no further name is
\* tried; the exception is caught and the for loop goes on.
MoveFails ==
    /\ pc = "mv_while"
    /\ move_log' = Append(move_log,
                          MoveAttempt(self_processed[k], dest_file, FALSE))
    /\ k' = k + 1
    /\ pc' = "mv_for"
    /\ UNCHANGED << clock, fs, stamp_date, counter, log, appVars, pdf_files,
                    cli_processed, self_processed, dest_path, dest_file,
                    moved_count >>

\* move_processed_files, lines 142 and 146-147: shutil.move copies the file to
\* the destination and raises when it removes the source (the rename was
\* refused, the copy went through, the unlink did not).  The destination holds
\* a complete copy, the source stays, and the move is not counted.
MoveFailsAfterCopy ==
    /\ pc = "mv_while"
    /\ ~exists(dest_file)
    /\ fs' = Write(dest_file, fs[self_processed[k]])
    /\ move_log' = Append(move_log,
                          MoveAttempt(self_processed[k], dest_file, FALSE))
    /\ k' = k + 1
    /\ pc' = "mv_for"
    /\ UNCHANGED << clock, stamp_date, counter, log, appVars, pdf_files,
                    cli_processed, self_processed, dest_path, dest_file,
                    moved_count >>

\* move_processed_files, lines 142 and 146-147: shutil.move raises while it
\* copies (the destination has been opened and truncated, the data does not
\* fit).  The destination holds an incomplete file, the source stays, and the
\* move is not counted.
MoveFailsPartial ==
    /\ pc = "mv_while"
    /\ ~exists(dest_file)
    /\ fs' = Write(dest_file, Partial)
    /\ move_log' = Append(move_log,
                          MoveAttempt(self_processed[k], dest_file, FALSE))
    /\ k' = k + 1
    /\ pc' = "mv_for"
    /\ UNCHANGED << clock, stamp_date, counter, log, appVars, pdf_files,
                    cli_processed, self_processed, dest_path, dest_file,
                    moved_count >>

\* move_processed_files, lines 149-150.
MoveEnd ==
    /\ pc = "mv_for"
    /\ k > Len(self_processed)
    /\ pc' = "mv_done"
    /\ UNCHANGED << clock, fs, stamp_date, counter, log, appVars, cliVars >>

CliSteps ==
    \/ CliStampUnreadable
    \/ CliStampWrites
    \/ CliStampOpenFails
    \/ CliStampWriteFails
    \/ ProcessEnd
    \/ MoveFor
    \/ MoveWhile
    \/ MoveMoves
    \/ MoveFails
    \/ MoveFailsAfterCopy
    \/ MoveFailsPartial
    \/ MoveEnd

-----------------------------------------------------------------------------
(* Specifications.                                                          *)

\* Batches of every kind of document, the clock running, the date settable.
Next ==
    \/ Tick
    \/ \E d \in DateInputs : set_stamp_date(d)
    \/ \E files \in SeqsUpTo(BatchFiles, MaxBatch), keep \in BOOLEAN :
           process_files(files, keep)
    \/ AppSteps
    \/ \E order \in GlobOrders : process_pdf_files(order)
    \/ \E dir \in { InputDir, OtherDir } : move_processed_files(dir)
    \/ \E dir \in { InputDir, OtherDir } : MoveMkdirFails(dir)
    \/ CliSteps

Spec == Init /\ [][Next]_vars

Fairness == WF_vars(AppSteps) /\ WF_vars(CliSteps)

\* Persist operations into destinations that already hold files.
NextPersist ==
    \/ \E root \in Computed : \E n \in Family(root) :
           EnvCreate(Downloads, root, n)
    \/ \E root \in PdfNames : \E n \in Family(root) :
           EnvCreate(OtherDir, root, n)
    \/ \E files \in SeqsUpTo(PersistFiles, MaxBatch), keep \in BOOLEAN :
           process_files(files, keep)
    \/ StampSucceeds
    \/ SaveWhile
    \/ SaveWrites
    \/ SaveOpenFails
    \/ SaveWriteFails
    \/ Finish
    \/ \E order \in GlobOrders : process_pdf_files(order)
    \/ \E dir \in { InputDir, OtherDir } : move_processed_files(dir)
    \/ \E dir \in { InputDir, OtherDir } : MoveMkdirFails(dir)
    \/ CliSteps

\* One document of any pages, stamped by either program.
NextStamp ==
    \/ Tick
    \/ \E d \in DateInputs : set_stamp_date(d)
    \/ \E f \in StampFiles, keep \in BOOLEAN : process_files(<< f >>, keep)
    \/ StampFails
    \/ StampSucceeds
    \/ SaveWrites
    \/ SaveOpenFails
    \/ SaveWriteFails
    \/ Finish
    \/ \E order \in GlobOrders : process_pdf_files(order)
    \/ CliStampUnreadable
    \/ CliStampWrites
    \/ CliStampOpenFails
    \/ CliStampWriteFails
    \/ ProcessEnd

SpecStamp == InitStamp /\ [][NextStamp]_vars

\* Output names, for every short name.
NextNaming ==
    \/ \E files \in NamingBatches, keep \in BOOLEAN : process_files(files, keep)
    \/ AppSteps

SpecNaming == InitApp /\ [][NextNaming]_vars

SpecPersist == InitPersist /\ [][NextPersist]_vars /\ Fairness

-----------------------------------------------------------------------------
(* Vocabulary of the properties.                                            *)

InApp == pc \in { "idle", "for", "save_while", "done" }
InCli == ~InApp

OkEntries == SelectSeq(log, LAMBDA e : e.ok)
FailedEntries == SelectSeq(log, LAMBDA e : ~e.ok)

ProcessErrors == SelectSeq(errors, LAMBDA e : e.what = "process")
SaveErrors == SelectSeq(errors, LAMBDA e : e.what = "save")

Range(f) == { f[j] : j \in DOMAIN f }

\* The command line program has left its stamping loop.
CliLoopOver == pc \in { "cli_processed", "mv_for", "mv_while", "mv_done",
                        "mv_raised" }
               \/ (pc = "cli_done" /\ pdf_files # << >>)

\* output is input with one overlay drawn on top of every page: same pages,
\* same order, everything the page drew before still below the overlay.
StampedCopy(input, output) ==
    /\ output.kind = "pdf"
    /\ Len(output.pages) = Len(input.pages)
    /\ \A n \in 1..Len(input.pages) :
         LET old == input.pages[n].layers
             new == output.pages[n].layers
         IN  /\ output.pages[n].box = input.pages[n].box
             /\ Len(new) = Len(old) + 1
             /\ SubSeq(new, 1, Len(old)) = old
             /\ new[Len(new)].kind = "overlay"
             /\ new[Len(new)].text = StampText

-----------------------------------------------------------------------------
(* C1: in both programs every input of a batch is attempted exactly once,   *)
(* in input order; an input that cannot be stamped (unparseable, or without *)
(* pages) fails without ending the batch and is not among the successes;    *)
(* when the batch is over, successes plus failures are all N inputs.        *)
C1_BatchNeverAborts ==
    /\ \A j \in 1..Len(log) : log[j].idx = j - 1
    /\ \A j \in 1..Len(log) : ~Readable(log[j].input) => ~log[j].ok
    /\ InApp =>
         /\ Len(log) <= Len(uploaded_files)
         /\ pc = "done" => Len(log) = Len(uploaded_files)
         /\ \A j \in 1..Len(log) : log[j].input = uploaded_files[j].bytes
         /\ Len(processed_files) = Len(OkEntries)
         /\ Len(ProcessErrors) = Len(FailedEntries)
         /\ \A j \in 1..Len(ProcessErrors) :
              ProcessErrors[j].file = uploaded_files[FailedEntries[j].idx + 1].name
         /\ pc = "done" =>
              Len(processed_files) + Len(ProcessErrors) = Len(uploaded_files)
    /\ InCli =>
         /\ Len(log) <= Len(pdf_files)
         /\ CliLoopOver => Len(log) = Len(pdf_files)
         /\ Len(cli_processed) = Len(OkEntries)
         /\ \A j \in 1..Len(cli_processed) :
              cli_processed[j] = pdf_files[OkEntries[j].idx + 1]
         /\ CliLoopOver =>
              /\ self_processed = cli_processed
              /\ Len(self_processed) + Len(FailedEntries) = Len(pdf_files)

\* A batch of two whose first input failed and whose second succeeded.
C1_Witness ==
    /\ pc = "done"
    /\ Len(uploaded_files) = 2
    /\ ~Readable(uploaded_files[1].bytes)
    /\ Len(processed_files) = 1
    /\ processed_files[1].original_name = uploaded_files[2].name

(* C2: every successfully stamped document has the pages of its input, in   *)
(* the same order, each with the overlay drawn on top of what it drew       *)
(* before; this is the document the result record (app.py) or the file      *)
(* (pdf_stamper.py) holds.                                                  *)
C2_PagesPreserved ==
    /\ \A j \in 1..Len(log) :
         log[j].ok => StampedCopy(log[j].input, log[j].output)
    /\ InApp =>
         \A r \in 1..Len(processed_files) :
           /\ r <= Len(OkEntries)
           /\ processed_files[r].data = OkEntries[r].output
           /\ StampedCopy(uploaded_files[OkEntries[r].idx + 1].bytes,
                          processed_files[r].data)
    /\ pc \in { "cli_for", "cli_processed" } =>
         \A j \in 1..Len(log) :
           log[j].ok => fs[pdf_files[j]] = log[j].output

\* A stamped two-page document whose pages differ.
C2_Witness ==
    /\ pc = "done"
    /\ \E r \in 1..Len(processed_files) :
         /\ Len(processed_files[r].data.pages) = 2
         /\ processed_files[r].data.pages[1].box
              # processed_files[r].data.pages[2].box

(* C6: after each attempt of process_files, failed or not, the last         *)
(* progress reported is (attempts so far) / N, and N/N after the last one.  *)
C6_ProgressAfterEveryAttempt ==
    LET last == progress[Len(progress)]
        N == Len(uploaded_files)
    IN  /\ (pc = "for" /\ i >= 1) => last[1] * N = i * last[2]
        /\ pc = "done" => last[1] = last[2]

MovedEntries == { j \in 1..Len(move_log) : move_log[j].ok }

FailedMoves == { j \in 1..Len(move_log) : ~move_log[j].ok }

C7_SaveWitness ==
    /\ pc = "done"
    /\ Len(processed_files) = 2
    /\ processed_files[1].save_path = NoPath
    /\ processed_files[2].save_path # NoPath
    /\ Len(SaveErrors) = 1

C7_MkdirWitness ==
    /\ pc = "mv_raised"
    /\ self_processed # << >>

\* The date an overlay of a stamped document carries.
DateOf(bytes) == LET layers == bytes.pages[1].layers
                 IN  layers[Len(layers)].date

(* C8: all documents stamped in one run carry the same date, whatever the   *)
(* clock did between them.                                                  *)
C8_OneDatePerRun ==
    \A a, b \in 1..Len(log) :
        (log[a].ok /\ log[b].ok) => DateOf(log[a].output) = DateOf(log[b].output)

(* C9: in pdf_stamper.py a file whose stamp_pdf returned False still holds  *)
(* the bytes it held before, is not listed in processed_files and is not    *)
(* moved.                                                                   *)
C9_FailedInputUntouched ==
    InCli =>
      \A j \in 1..Len(log) :
        ~log[j].ok =>
          /\ pdf_files[j] \in DOMAIN fs
          /\ fs[pdf_files[j]] = log[j].input
          /\ pdf_files[j] \notin Range(cli_processed)
          /\ pdf_files[j] \notin Range(self_processed)

-----------------------------------------------------------------------------
(* File names as the specification words them.                              *)

NoDotIn(s) == \A p \in 1..Len(s) : s[p] # "."

Decimal(c) == IF c < 10 THEN << Digit(c) >>
              ELSE << Digit(c \div 10), Digit(c % 10) >>

\* out is name with the infix put before the last dot and what follows it,
\* or put at the end of a name without dot.
Infixed(name, infix, out) ==
    \/ /\ NoDotIn(name)
       /\ out = name \o infix
    \/ \E p \in 1..Len(name) :
         /\ name[p] = "."
         /\ NoDotIn(SubSeq(name, p + 1, Len(name)))
         /\ out = SubSeq(name, 1, p - 1) \o infix \o SubSeq(name, p, Len(name))

\* out is "{stem}_{c}.{ext}", or "{name}_{c}" for a name without extension.
IsNumbered(name, c, out) == Infixed(name, << "_" >> \o Decimal(c), out)

\* target is the first free slot of name in directory dir: the name itself if
\* free, otherwise the numbered name of the smallest c >= 1 that is free.
FirstFreeSlot(dir, name, target) ==
    /\ target \notin DOMAIN fs
    /\ target[1] = dir
    /\ \/ target[2] = name
       \/ /\ << dir, name >> \in DOMAIN fs
          /\ \E c \in 1..Cardinality(DOMAIN fs) :
               /\ IsNumbered(name, c, target[2])
               /\ \A b \in 1..(c - 1) :
                    \E q \in InDir(dir) : IsNumbered(name, b, q[2])

(* C5: in keep-original mode the output name of every input name is the     *)
(* name with "_kanryo" put before its last dot, or appended when it has no   *)
(* dot; the same input name always gets the same output name.                *)
C5_KeepOriginalName ==
    /\ keep_original =>
         \A r \in 1..Len(processed_files) :
           Infixed(processed_files[r].original_name, << "_", "KAN", "RYO" >>,
                   processed_files[r].name)
    /\ \A a, b \in 1..Len(processed_files) :
         processed_files[a].original_name = processed_files[b].original_name
           => processed_files[a].name = processed_files[b].name

\* A name with two dots, and a name without dot, stamped in keep-original mode.
C5_Witness ==
    /\ keep_original
    /\ Len(processed_files) = 2
    /\ LET n == processed_files[2].original_name
       IN  Cardinality({ p \in 1..Len(n) : n[p] = "." }) = 2

(* C10, as claimed: the file name of a record's save_path is the record's   *)
(* output name.                                                             *)
C10_NameIsWrittenName ==
    InApp => \A r \in 1..Len(processed_files) :
                processed_files[r].save_path # NoPath =>
                    processed_files[r].save_path[2] = processed_files[r].name

(* C10, amended: the record's name is the computed output name (the input   *)
(* name itself in replace mode); the file written is in Downloads and holds *)
(* the record's data; its name is the record's name when that name was      *)
(* free, and otherwise "{stem}_{c}.{ext}" for the smallest free c >= 1,     *)
(* the record's name and every smaller number then being taken.             *)
C10_NameOrNumbered ==
    InApp =>
      \A r \in 1..Len(processed_files) :
        LET rec == processed_files[r]
            written == rec.save_path
        IN  /\ ~keep_original => rec.name = rec.original_name
            /\ keep_original =>
                 Infixed(rec.original_name, << "_", "KAN", "RYO" >>, rec.name)
            /\ written # NoPath =>
                 /\ written[1] = Downloads
                 /\ written \in DOMAIN fs
                 /\ fs[written] = rec.data
                 /\ \/ written[2] = rec.name
                    \/ /\ << Downloads, rec.name >> \in DOMAIN fs
                       /\ \E c \in 1..Cardinality(DOMAIN fs) :
                            /\ IsNumbered(rec.name, c, written[2])
                            /\ \A b \in 1..(c - 1) :
                                 \E q \in InDir(Downloads) :
                                     IsNumbered(rec.name, b, q[2])

\* A record whose file got a number: its name is not the written name.
C10_Witness ==
    /\ pc = "done"
    /\ \E r \in 1..Len(processed_files) :
         /\ processed_files[r].save_path # NoPath
         /\ processed_files[r].save_path[2] # processed_files[r].name

-----------------------------------------------------------------------------
\* A step leaves every file of the set where it was, with the bytes it had.
Untouched(paths) == \A p \in paths : p \in DOMAIN fs' /\ fs'[p] = fs[p]

(* C3: no step of process_files / save_processed_file changes or removes a  *)
(* file that exists; a move of move_processed_files changes or removes no   *)
(* file of the destination other than the file being moved; two records     *)
(* saved in one run have distinct files, each still holding its record's    *)
(* data; and a save of a name that exists while its number 1 is free writes *)
(* "{stem}_1.{ext}".                                                        *)
C3_NeverOverwrites ==
    [][ /\ InApp => Untouched(DOMAIN fs)
        /\ (pc = "mv_while" /\ pc' = "mv_for") =>
              Untouched(InDir(dest_path) \ { self_processed[k] })
        /\ (pc = "save_while" /\ pc' = "for" /\ fs' # fs) =>
              \E w \in DOMAIN fs' \ DOMAIN fs :
                 /\ DOMAIN fs' = DOMAIN fs \cup { w }
                 /\ ( /\ << Downloads, new_name >> \in DOMAIN fs
                      /\ \A q \in InDir(Downloads) :
                            ~IsNumbered(new_name, 1, q[2]) )
                    => IsNumbered(new_name, 1, w[2])
        /\ InApp' =>
              \A a, b \in 1..Len(processed_files') :
                 LET pa == processed_files'[a].save_path
                     pb == processed_files'[b].save_path
                 IN  (a # b /\ pa # NoPath /\ pb # NoPath) =>
                        /\ pa # pb
                        /\ fs'[pa] = processed_files'[a].data
                        /\ fs'[pb] = processed_files'[b].data
      ]_vars

\* "r.pdf" was in Downloads before the run; a stamped "r.pdf" has been saved
\* as "r_1.pdf", and the old file is what it was.
C3_Witness ==
    /\ pc = "done"
    /\ ~keep_original
    /\ << Downloads, NameReport >> \in DOMAIN fs
    /\ fs[<< Downloads, NameReport >>] = Foreign
    /\ \E r \in 1..Len(processed_files) :
         /\ processed_files[r].name = NameReport
         /\ processed_files[r].save_path =
              << Downloads, << "r", "_", "1" >> \o PdfExt >>

(* C4: the collision loop ends, and when it has ended its target is the     *)
(* first free slot: the computed name if free, otherwise the numbered name  *)
(* of the smallest c >= 1 that is free.                                     *)
C4_FirstFreeSlot ==
    /\ [](( pc = "save_while" /\ save_file \notin DOMAIN fs) =>
              FirstFreeSlot(Downloads, new_name, save_file))
    /\ [](( pc = "mv_while" /\ dest_file \notin DOMAIN fs) =>
              FirstFreeSlot(dest_path, self_processed[k][2], dest_file))
    /\ (pc = "save_while") ~> (pc = "for")
    /\ (pc = "mv_while") ~> (pc = "mv_for")

\* The loop has passed the name and its number 1, and stands on number 2.
C4_Witness ==
    /\ pc = "save_while"
    /\ counter = 3
    /\ save_file \notin DOMAIN fs
    /\ IsNumbered(new_name, 2, save_file[2])

=============================================================================
